---------------------------- MODULE Spec2Model ----------------------------
(***************************************************************************)
(* The node lifecycle of the cudnn-frontend graph API for four node kinds:  *)
(* BatchNormNode, DBNNode, DgradNode and RngNode.  A node wraps one         *)
(* attributes bundle (options) whose roles point to shared tensor           *)
(* descriptors (Tensor_attributes), and is driven through validate,         *)
(* infer_properties, assign_uids, createTensors and createOperations.       *)
(*                                                                          *)
(* Tensor descriptors live in a heap (attrs) and are referred to by         *)
(* pointers; a role whose shared_ptr is empty holds Null.  Element data     *)
(* types and the compute type (fill_from_context) are not modelled.         *)
(*                                                                          *)
(* Undefined behaviour (a call through an empty shared_ptr, an index past   *)
(* the end of a vector) is a nondeterministic choice: the process crashes,  *)
(* or the faulting read yields an arbitrary value and a faulting write is   *)
(* lost, and the handler runs on.                                           *)
(***************************************************************************)
EXTENDS Integers, Sequences, FiniteSets, TLC

VARIABLES
    attrs,        \* heap of Tensor_attributes: pointer -> [dim, stride, is_virtual, uid]
    options,      \* node -> attributes bundle (kind, role pointers, parameters)
    stage,        \* node -> position in the lifecycle
    status,       \* node -> error code returned by the last handler that returned
    tensors,      \* node -> keys (uids) of the node's uid -> backend tensor map
    operations,   \* node -> sequence of operation records
    uid_counter,  \* the static counter behind ICudnn::create_new_uid
    exception,    \* node -> the exception that left createOperations, or NoException
    raised,       \* node -> the exception the external builder raised, or NoException
    ub,           \* node -> TRUE once a handler of the node ran into undefined behaviour
    calls         \* node -> number of assign_uids calls made on the node

vars == <<attrs, options, stage, status, tensors, operations, uid_counter,
          exception, raised, ub, calls>>

-----------------------------------------------------------------------------
(* Bounds of the model.                                                     *)

\* at most this many tensors of a node are marked virtual by the caller
MaxVirtual == 1
\* at most this many extra assign_uids calls are made on a node
MaxRepeat == 1
\* spatial extents of the Dgrad shapes range over 1..MaxDim
MaxDim == 3
\* a graph holds at most this many nodes
MaxNodes == 2
\* at most this many of the tensors a node infers carry a caller's shape or stride
MaxSupplied == 1

-----------------------------------------------------------------------------
(* Values.                                                                  *)

\* an empty shared_ptr<Tensor_attributes>
Null == <<>>
\* the uid of a descriptor that was never given one
NoUid == 0
NoException == [type |-> "none", status |-> "none", message |-> "none"]

Kinds == {"BATCHNORM", "DBN", "DGRAD", "RNG"}

\* the value of a read past the end of a vector or through an empty pointer:
\* it stands for every value of the element type, each read on its own
Indeterminate == 0 - 2 ^ 30
\* the shapes a read through an empty pointer may give: any rank the model
\* covers, every extent indeterminate
GarbageShapes == { [i \in 1..k |-> Indeterminate] : k \in 0..MaxDim }

\* exceptions the external descriptor and operation builders may raise
BackendExceptions ==
    { [type |-> "cudnnException", status |-> "BAD_PARAM", message |-> "m1"],
      [type |-> "cudnnException", status |-> "NOT_SUPPORTED", message |-> "m2"] }

-----------------------------------------------------------------------------
(* Roles of each attributes bundle.                                         *)

BatchNormRoles ==
    {"X", "SCALE", "BIAS", "PREV_RUNNING_MEAN", "PREV_RUNNING_VAR", "EPSILON",
     "MOMENTUM", "Y", "MEAN", "INV_VARIANCE", "NEXT_RUNNING_MEAN",
     "NEXT_RUNNING_VAR"}

DBNRoles ==
    {"X", "DY", "SCALE", "MEAN", "INV_VARIANCE", "EPSILON", "DX", "DSCALE",
     "DBIAS"}

DgradRoles == {"W", "DY", "DX"}

RngRoles == {"Seed", "Offset", "Y"}

Roles(kind) ==
    CASE kind = "BATCHNORM" -> BatchNormRoles
      [] kind = "DBN" -> DBNRoles
      [] kind = "DGRAD" -> DgradRoles
      [] kind = "RNG" -> RngRoles


-----------------------------------------------------------------------------
(* The order in which each handler walks the roles.                         *)

BatchNormAssignOrder ==
    <<"X", "SCALE", "BIAS", "PREV_RUNNING_MEAN", "PREV_RUNNING_VAR", "EPSILON",
      "MOMENTUM", "Y", "MEAN", "INV_VARIANCE", "NEXT_RUNNING_MEAN",
      "NEXT_RUNNING_VAR">>

BatchNormTensorOrder ==
    <<"X", "PREV_RUNNING_MEAN", "PREV_RUNNING_VAR", "EPSILON", "MOMENTUM",
      "SCALE", "BIAS", "Y", "MEAN", "INV_VARIANCE", "NEXT_RUNNING_MEAN",
      "NEXT_RUNNING_VAR">>

\* the setter calls of the batchnorm operation builder chain, in chain order,
\* each with the roles whose handles its arguments look up
BatchNormWiredOrder ==
    << <<"X">>, <<"MEAN", "INV_VARIANCE">>, <<"SCALE", "BIAS">>,
       <<"PREV_RUNNING_MEAN", "PREV_RUNNING_VAR">>,
       <<"NEXT_RUNNING_MEAN", "NEXT_RUNNING_VAR">>, <<"EPSILON">>,
       <<"MOMENTUM">>, <<"Y">> >>

BatchNormInvolved ==
    <<"X", "PREV_RUNNING_MEAN", "PREV_RUNNING_VAR", "EPSILON", "MOMENTUM",
      "SCALE", "BIAS", "Y", "MEAN", "INV_VARIANCE", "NEXT_RUNNING_MEAN",
      "NEXT_RUNNING_VAR">>

\* infer_properties_node of BatchNormNode: role and rule, in call order
BatchNormInferOrder ==
    <<[role |-> "Y", rule |-> "copy"],
      [role |-> "MEAN", rule |-> "channel"],
      [role |-> "INV_VARIANCE", rule |-> "channel"],
      [role |-> "NEXT_RUNNING_MEAN", rule |-> "channel"],
      [role |-> "NEXT_RUNNING_VAR", rule |-> "channel"],
      [role |-> "PREV_RUNNING_MEAN", rule |-> "channel"],
      [role |-> "PREV_RUNNING_VAR", rule |-> "channel"],
      [role |-> "SCALE", rule |-> "channel"],
      [role |-> "BIAS", rule |-> "channel"],
      [role |-> "EPSILON", rule |-> "scalar"],
      [role |-> "MOMENTUM", rule |-> "scalar"]>>

DBNAssignOrder ==
    <<"X", "DY", "SCALE", "MEAN", "INV_VARIANCE", "DX", "DSCALE", "DBIAS">>

DBNTensorOrder ==
    <<"X", "DY", "SCALE", "MEAN", "INV_VARIANCE", "DX", "DSCALE", "DBIAS">>

\* the setter calls of the DBN operation builder chain and their arguments
DBNWiredOrder ==
    << <<"X">>, <<"DY">>, <<"SCALE">>, <<"MEAN", "INV_VARIANCE">>,
       <<"DSCALE", "DBIAS">>, <<"DX">> >>

DBNInvolved ==
    <<"X", "DY", "SCALE", "MEAN", "INV_VARIANCE", "DX", "DSCALE", "DBIAS">>

DBNInferOrder ==
    <<[role |-> "DY", rule |-> "copy"],
      [role |-> "DX", rule |-> "copy"],
      [role |-> "MEAN", rule |-> "channel"],
      [role |-> "INV_VARIANCE", rule |-> "channel"],
      [role |-> "SCALE", rule |-> "channel"],
      [role |-> "DSCALE", rule |-> "channel"],
      [role |-> "DBIAS", rule |-> "channel"]>>

DgradAssignOrder == <<"DY", "W", "DX">>

DgradTensorOrder == <<"DX", "W", "DY">>

\* the setter calls of the dgrad operation builder chain and their arguments
DgradWiredOrder == << <<"DX">>, <<"W">>, <<"DY">> >>

\* the setter calls of the Rng operation builder chain when Seed is set, and
\* when the literal seed is used
RngWiredOrder == << <<"Y">>, <<"Seed">>, <<"Offset">> >>
RngLiteralWiredOrder == << <<"Y">> >>

DgradInvolved == <<"DX", "W", "DY">>

RngInvolved == <<"Seed", "Offset", "Y">>

-----------------------------------------------------------------------------
(* Helpers on sequences and on the descriptor heap.                         *)

Range(s) == { s[i] : i \in DOMAIN s }

\* the pointers a node holds for the roles of order, in that order
Ptrs(n, order) == [i \in DOMAIN order |-> options[n].ptr[order[i]]]

HasNull(ps) == \E i \in DOMAIN ps : ps[i] = Null

\* the roles of a builder chain, as written
RECURSIVE Flatten(_)
Flatten(chain) ==
    IF chain = <<>> THEN <<>> ELSE Head(chain) \o Flatten(Tail(chain))

\* the orders in which the arguments of one call may be evaluated: the
\* language leaves the order of a call's arguments unspecified
ArgOrders(args) ==
    { [i \in DOMAIN args |-> args[f[i]]] :
        f \in { g \in [DOMAIN args -> DOMAIN args] :
                  \A i, j \in DOMAIN args : i # j => g[i] # g[j] } }

\* the orders in which a builder chain may evaluate its lookups: the calls
\* of the chain in turn, the arguments of each call in any order
RECURSIVE EvalOrders(_)
EvalOrders(chain) ==
    IF chain = <<>> THEN {<<>>}
    ELSE { a \o rest : a \in ArgOrders(Head(chain)),
                        rest \in EvalOrders(Tail(chain)) }

\* int64_t arithmetic on values that may be indeterminate: the result is
\* indeterminate when an operand is, except that a product with zero is zero
Mul(a, b) ==
    IF a = 0 \/ b = 0 THEN 0
    ELSE IF a = Indeterminate \/ b = Indeterminate THEN Indeterminate
    ELSE a * b
Add(a, b) ==
    IF a = Indeterminate \/ b = Indeterminate THEN Indeterminate ELSE a + b
Sub(a, b) ==
    IF a = Indeterminate \/ b = Indeterminate THEN Indeterminate ELSE a - b

RECURSIVE Product(_, _)
Product(dim, i) ==
    IF i > Len(dim) THEN 1 ELSE Mul(dim[i], Product(dim, i + 1))

\* detail::generate_stride: the packed stride of a shape
generate_stride(dim) == [i \in DOMAIN dim |-> Product(dim, i + 1)]

\* std::vector::resize(n, 1) on an empty vector
Ones(n) == [i \in 1..n |-> 1]

\* ICudnn::create_new_uid: the value returned when the counter holds c
create_new_uid(c) == c + 1

\* Tensor_attributes::set_uid
set_uid(h, p, u) == [h EXCEPT ![p].uid = u]

\* Tensor_attributes::set_dim
set_dim(h, p, d) == [h EXCEPT ![p].dim = d]

\* Tensor_attributes::set_stride
set_stride(h, p, s) == [h EXCEPT ![p].stride = s]

-----------------------------------------------------------------------------
(* Construction: what the caller hands to the node constructors.            *)
(* A node is described by cfg: its kind, the roles left empty (absent),     *)
(* the roles whose tensor is virtual (virt), the caller's shapes and        *)
(* strides per role (<<>> when not supplied) and the scalar parameters.     *)

\* the roles the code itself treats as optional (it tests the pointer)
OptionalRoles(kind) ==
    CASE kind = "BATCHNORM" -> {}
      [] kind = "DBN" -> {"MEAN", "INV_VARIANCE", "EPSILON"}
      [] kind = "DGRAD" -> {}
      [] kind = "RNG" -> {"Seed", "Offset"}

\* any set of optional roles is left empty, and at most one of the others
AbsentChoices(kind) ==
    { o \cup m : o \in SUBSET OptionalRoles(kind),
                 m \in {{}} \cup { {r} : r \in Roles(kind) \ OptionalRoles(kind) } }

VirtualChoices(kind, absent) ==
    { v \in SUBSET (Roles(kind) \ absent) : Cardinality(v) <= MaxVirtual }

\* the shapes of a typical caller: the primary inputs carry a shape and a
\* stride, the tensors the node infers carry none
TypicalDim(kind, role) ==
    CASE kind \in {"BATCHNORM", "DBN"} /\ role = "X" -> <<2, 3, 2, 2>>
      [] kind = "DGRAD" /\ role = "W" -> <<2, 3, 3, 3>>
      [] kind = "DGRAD" /\ role = "DY" -> <<2, 2, 2, 2>>
      [] kind = "RNG" /\ role = "Y" -> <<2, 3>>
      [] kind = "RNG" /\ role # "Y" -> <<1, 1>>
      [] OTHER -> <<>>

TypicalCfg(kind, absent, virt) ==
    [kind |-> kind,
     absent |-> absent,
     virt |-> virt,
     dims |-> [r \in Roles(kind) |-> TypicalDim(kind, r)],
     strides |-> [r \in Roles(kind) |-> generate_stride(TypicalDim(kind, r))],
     forward_phase |-> "TRAINING",
     distribution |-> "BERNOULLI",
     has_probability |-> TRUE,
     has_seed |-> TRUE,
     padding |-> <<0, 0>>,
     stride |-> <<1, 1>>,
     dilation |-> <<1, 1>>]

\* the scalar parameters a caller may set or leave unset
WithParams(cfg) ==
    CASE cfg.kind = "BATCHNORM" ->
            { [cfg EXCEPT !.forward_phase = f] : f \in {"NOT_SET", "TRAINING"} }
      [] cfg.kind = "RNG" ->
            { [cfg EXCEPT !.distribution = d, !.has_seed = s] :
                d \in {"BERNOULLI", "UNIFORM"}, s \in BOOLEAN }
      [] OTHER -> {cfg}

\* the pointer a role holds: its own descriptor, or the one it shares
PtrOf(cfgs, alias, n, r) ==
    IF r \in cfgs[n].absent THEN Null
    ELSE IF <<n, r>> \in DOMAIN alias THEN alias[<<n, r>>]
    ELSE <<n, r>>

\* the state after the node constructors have run
Construct(cfgs, alias) ==
    LET N == DOMAIN cfgs
        owned == { <<n, r>> : n \in N, r \in UNION { Roles(cfgs[m].kind) : m \in N } }
        live == { p \in owned : /\ p[2] \in Roles(cfgs[p[1]].kind)
                                /\ p[2] \notin cfgs[p[1]].absent
                                /\ p \notin DOMAIN alias }
    IN  /\ attrs = [p \in live |->
                      [dim |-> cfgs[p[1]].dims[p[2]],
                       stride |-> cfgs[p[1]].strides[p[2]],
                       is_virtual |-> p[2] \in cfgs[p[1]].virt,
                       uid |-> NoUid]]
        /\ options = [n \in N |->
                      [kind |-> cfgs[n].kind,
                       ptr |-> [r \in Roles(cfgs[n].kind) |-> PtrOf(cfgs, alias, n, r)],
                       forward_phase |-> cfgs[n].forward_phase,
                       distribution |-> cfgs[n].distribution,
                       has_probability |-> cfgs[n].has_probability,
                       has_seed |-> cfgs[n].has_seed,
                       padding |-> cfgs[n].padding,
                       stride |-> cfgs[n].stride,
                       dilation |-> cfgs[n].dilation]]
        /\ stage = [n \in N |-> "constructed"]
        /\ status = [n \in N |-> "OK"]
        /\ tensors = [n \in N |-> {}]
        /\ operations = [n \in N |-> <<>>]
        /\ uid_counter = 0
        /\ exception = [n \in N |-> NoException]
        /\ raised = [n \in N |-> NoException]
        /\ ub = [n \in N |-> FALSE]
        /\ calls = [n \in N |-> 0]

NoAlias == [p \in {} |-> Null]

\* one node of any kind, with any optional roles empty and few virtual tensors
Init ==
    \E kind \in Kinds :
      \E absent \in AbsentChoices(kind) :
        \E virt \in VirtualChoices(kind, absent) :
          \E cfg \in WithParams(TypicalCfg(kind, absent, virt)) :
            Construct([n \in {1} |-> cfg], NoAlias)

\* the roles whose shape and stride infer_properties fills in
InferredRoles(kind) ==
    CASE kind = "BATCHNORM" -> BatchNormRoles \ {"X"}
      [] kind = "DBN" -> DBNRoles \ {"X", "EPSILON"}
      [] kind = "DGRAD" -> {"DX"}
      [] kind = "RNG" -> {}

\* a shape and a stride a caller supplies for a tensor the node would infer
UserDim == <<7, 7>>
UserStride == <<9, 9>>

\* the shapes a caller may give the primary inputs, the unknown shape included
PrimaryDims(kind) ==
    CASE kind \in {"BATCHNORM", "DBN"} ->
            { [r \in {"X"} |-> x] : x \in {<<>>, <<3>>, <<2, 3>>, <<2, 3, 2, 2>>} }
      [] kind = "DGRAD" ->
            { [r \in {"W", "DY"} |-> IF r = "W" THEN w ELSE dy] :
                w \in {<<>>, <<2, 3, 3, 3>>}, dy \in {<<>>, <<2, 2, 2, 2>>} }

\* every role present, the primary inputs shaped by prim, a caller's shape
\* on the roles of sd and a caller's stride on the roles of ss
ShapedCfg(kind, prim, sd, ss) ==
    LET dimOf(r) == IF r \in DOMAIN prim THEN prim[r]
                    ELSE IF r \in sd THEN UserDim
                    ELSE <<>>
        strideOf(r) == IF r \in DOMAIN prim THEN generate_stride(prim[r])
                       ELSE IF r \in ss THEN UserStride
                       ELSE <<>>
    IN  [TypicalCfg(kind, {}, {}) EXCEPT
            !.dims = [r \in Roles(kind) |-> dimOf(r)],
            !.strides = [r \in Roles(kind) |-> strideOf(r)]]

\* one node with shape inference, every role present, any primary shape,
\* and a caller's shape or stride on few of the tensors the node infers
InitInfer ==
    \E kind \in {"BATCHNORM", "DBN", "DGRAD"} :
      \E prim \in PrimaryDims(kind) :
        \E u \in { v \in SUBSET InferredRoles(kind) : Cardinality(v) <= MaxSupplied } :
          \E sd \in SUBSET u :
            \E ss \in { t \in SUBSET u : sd \cup t = u } :
              Construct([n \in {1} |-> ShapedCfg(kind, prim, sd, ss)], NoAlias)

\* stride, padding and dilation of one spatial axis
AxisParams ==
    { <<1, 0, 1>>, <<2, 0, 1>>, <<1, 1, 1>>, <<1, 0, 2>>, <<2, 1, 2>> }

\* a Dgrad node over W = [K, C, spatial...] and DY = [N, K, spatial...] with
\* one or two spatial axes and DX left to the node
DgradCfg(N, K, C, wsp, dysp, ap) ==
    [ShapedCfg("DGRAD", [r \in {"W", "DY"} |->
                           IF r = "W" THEN <<K, C>> \o wsp ELSE <<N, K>> \o dysp],
               {}, {})
       EXCEPT !.stride = [a \in DOMAIN ap |-> ap[a][1]],
              !.padding = [a \in DOMAIN ap |-> ap[a][2]],
              !.dilation = [a \in DOMAIN ap |-> ap[a][3]]]

InitDgrad ==
    \E N \in 1..2, K \in 1..2, C \in 1..2 :
      \E rank \in 1..2 :
        \E wsp \in [1..rank -> 1..MaxDim], dysp \in [1..rank -> 1..MaxDim] :
          \E ap \in [1..rank -> AxisParams] :
            Construct([n \in {1} |-> DgradCfg(N, K, C, wsp, dysp, ap)], NoAlias)

\* the output roles of each bundle; the other roles are inputs
OutputRoles(kind) ==
    CASE kind = "BATCHNORM" ->
            {"Y", "MEAN", "INV_VARIANCE", "NEXT_RUNNING_MEAN", "NEXT_RUNNING_VAR"}
      [] kind = "DBN" -> {"DX", "DSCALE", "DBIAS"}
      [] kind = "DGRAD" -> {"DX"}
      [] kind = "RNG" -> {"Y"}

\* no sharing, or an input role of one node holding the descriptor of an
\* output role of an earlier node
AliasChoices(kinds) ==
    {NoAlias} \cup
    UNION { UNION { { [p \in {<<b, i>>} |-> <<a, o>>] :
                        o \in OutputRoles(kinds[a]),
                        i \in Roles(kinds[b]) \ OutputRoles(kinds[b]) } :
                    b \in { c \in DOMAIN kinds : c > a } } :
            a \in DOMAIN kinds }

\* a graph of N nodes of any kinds, every role present, with at most one
\* descriptor shared by two nodes, its virtual flag drawn from vs
GraphInit(N, vs) ==
    \E kinds \in [1..N -> Kinds] :
      \E alias \in AliasChoices(kinds) :
        \E v \in (IF alias = NoAlias THEN {FALSE} ELSE vs) :
          Construct([n \in 1..N |->
                       TypicalCfg(kinds[n], {},
                                  IF v THEN { alias[p][2] : p \in { q \in DOMAIN alias :
                                                                      alias[q][1] = n } }
                                  ELSE {})],
                    alias)

\* a graph of MaxNodes nodes; a shared descriptor is an intermediate tensor
InitGraph == GraphInit(MaxNodes, {TRUE})

\* two nodes of any kinds, every role present, an input role of the second
\* holding the descriptor of an output role of the first, virtual or not
InitShared ==
    \E kinds \in [1..2 -> Kinds] :
      \E alias \in AliasChoices(kinds) \ {NoAlias} :
        \E v \in BOOLEAN :
          Construct([n \in 1..2 |->
                       TypicalCfg(kinds[n], {},
                                  IF v THEN { alias[p][2] : p \in { q \in DOMAIN alias :
                                                                      alias[q][1] = n } }
                                  ELSE {})],
                    alias)

-----------------------------------------------------------------------------
(* The driver.  A failure of any stage of any node aborts the graph build.  *)

Nodes == DOMAIN options

Failed(n) == stage[n] \in {"aborted", "crashed", "threw"}

Running == \A n \in Nodes : ~Failed(n)

\* a handler returns code: the node moves on, or the build aborts
Return(n, next, code) ==
    /\ status' = [status EXCEPT ![n] = code]
    /\ stage' = [stage EXCEPT ![n] = IF code = "OK" THEN next ELSE "aborted"]

\* the process dies in a handler of node n (undefined behaviour)
Crash(n) ==
    /\ stage' = [stage EXCEPT ![n] = "crashed"]
    /\ ub' = [ub EXCEPT ![n] = TRUE]
    /\ UNCHANGED <<attrs, options, status, tensors, operations, uid_counter,
                   exception, raised, calls>>

-----------------------------------------------------------------------------
(* validate                                                                 *)

\* BatchNormNode::validate_node
BatchNormValidateCode(o) ==
    IF o.forward_phase = "NOT_SET" THEN "ATTRIBUTE_NOT_SET" ELSE "OK"

\* DBNNode::validate_node rejecting a bundle that lacks any one of the three
DBNValidateCodeAny(o) ==
    IF \/ o.ptr["MEAN"] = Null
       \/ o.ptr["INV_VARIANCE"] = Null
       \/ o.ptr["EPSILON"] = Null
    THEN "ATTRIBUTE_NOT_SET"
    ELSE "OK"

\* DBNNode::validate_node
DBNValidateCode(o) ==
    IF /\ o.ptr["MEAN"] = Null
       /\ o.ptr["INV_VARIANCE"] = Null
       /\ o.ptr["EPSILON"] = Null
    THEN "ATTRIBUTE_NOT_SET"
    ELSE "OK"

\* RngNode::validate_node
RngValidateCode(o) ==
    IF o.ptr["Y"] = Null THEN "ATTRIBUTE_NOT_SET" ELSE "OK"

\* DgradNode does not override validate_node: INode's default accepts
DgradValidateCode(o) == "OK"

ValidateCode(o) ==
    CASE o.kind = "BATCHNORM" -> BatchNormValidateCode(o)
      [] o.kind = "DBN" -> DBNValidateCode(o)
      [] o.kind = "RNG" -> RngValidateCode(o)
      [] o.kind = "DGRAD" -> DgradValidateCode(o)

Validate(n) ==
    /\ n \in Nodes
    /\ Running
    /\ stage[n] = "constructed"
    /\ Return(n, "validated", ValidateCode(options[n]))
    /\ UNCHANGED <<attrs, options, tensors, operations, uid_counter, exception,
                   raised, ub, calls>>

-----------------------------------------------------------------------------
(* infer_properties                                                         *)
(* A handler's run is summarised by the set of its possible outcomes:       *)
(* [crash, h, ub] with h the heap it leaves and ub whether it ran into      *)
(* undefined behaviour.                                                     *)

\* the channel rule taking the extent of the batch axis instead
InferredDimBatchAxis(rule, x) ==
    CASE rule = "copy" -> x
      [] rule = "channel" ->
            IF Len(x) >= 2 THEN [Ones(Len(x)) EXCEPT ![2] = x[1]] ELSE Ones(Len(x))
      [] rule = "scalar" -> Ones(Len(x))

\* the shape a rule writes into a tensor whose shape is empty, from the
\* primary input's shape x.  With fewer than two axes in x, the channel
\* rule's tensor_dim[1] = x_tensor_dim[1] reads and writes past the end.
InferredDim(rule, x) ==
    CASE rule = "copy" -> x
      [] rule = "channel" ->
            IF Len(x) >= 2 THEN [Ones(Len(x)) EXCEPT ![2] = x[2]] ELSE Ones(Len(x))
      [] rule = "scalar" -> Ones(Len(x))

\* one tensor of infer_properties_node writing the shape without testing it
InferTensorOverwrite(h, p, rule, x) ==
    LET h1 == set_dim(h, p, InferredDim(rule, x))
    IN  IF h1[p].stride = <<>>
        THEN set_stride(h1, p, generate_stride(h1[p].dim))
        ELSE h1

\* one tensor of infer_properties_node: the shape, then the stride
InferTensor(h, p, rule, x) ==
    LET h1 == IF h[p].dim = <<>> THEN set_dim(h, p, InferredDim(rule, x)) ELSE h
    IN  IF h1[p].stride = <<>>
        THEN set_stride(h1, p, generate_stride(h1[p].dim))
        ELSE h1

\* whether inferring tensor p steps outside defined behaviour
InferTensorUB(h, p, rule, x) ==
    \/ p = Null
    \/ p # Null /\ rule = "channel" /\ h[p].dim = <<>> /\ Len(x) < 2

RECURSIVE InferFold(_, _, _, _, _)
InferFold(acc, n, order, x, i) ==
    IF i > Len(order) THEN acc
    ELSE LET p == options[n].ptr[order[i].role]
             rule == order[i].rule
         IN  InferFold([h |-> IF p = Null THEN acc.h
                              ELSE InferTensor(acc.h, p, rule, x),
                        ub |-> acc.ub \/ InferTensorUB(acc.h, p, rule, x)],
                       n, order, x, i + 1)

\* the outcomes of a run: as computed, or a crash where it was undefined
Outcomes(runs, h) ==
    { [crash |-> FALSE, h |-> r.h, ub |-> r.ub] : r \in runs }
      \cup { [crash |-> TRUE, h |-> h, ub |-> TRUE] : r \in { q \in runs : q.ub } }

\* the primary input's shape as the handler reads it
ReadDim(h, p) == IF p = Null THEN GarbageShapes ELSE {h[p].dim}

\* BatchNormNode::infer_properties_node
BatchNormInfer(h, n) ==
    LET X == options[n].ptr["X"]
    IN  Outcomes({ InferFold([h |-> h, ub |-> X = Null], n, BatchNormInferOrder, x, 1) :
                     x \in ReadDim(h, X) }, h)

\* DBNNode::infer_properties_node
DBNInfer(h, n) ==
    LET X == options[n].ptr["X"]
    IN  Outcomes({ InferFold([h |-> h, ub |-> X = Null], n, DBNInferOrder, x, 1) :
                     x \in ReadDim(h, X) }, h)

\* s[i], or an indeterminate value when i is past the end of s
At(s, i) == IF i \in DOMAIN s THEN s[i] ELSE Indeterminate

\* the DX shape with the channel count taken from W's first axis
DgradDimOutputChannels(w, dy, o) ==
    [d \in 1..Len(w) |->
        IF d = 1 THEN At(dy, 1)
        ELSE IF d = 2 THEN w[1]
        ELSE Add(Add(Sub(Mul(Sub(At(dy, d), 1), At(o.stride, d - 2)),
                         Mul(2, At(o.padding, d - 2))),
                     1),
                 Mul(At(o.dilation, d - 2), Sub(w[d], 1)))]

\* the DX shape DgradNode computes (x NCHW, w KCRS, y NKPQ); indices are
\* one more than the code's
DgradDim(w, dy, o) ==
    [d \in 1..Len(w) |->
        IF d = 1 THEN At(dy, 1)
        ELSE IF d = 2 THEN w[2]
        ELSE Add(Add(Sub(Mul(Sub(At(dy, d), 1), At(o.stride, d - 2)),
                         Mul(2, At(o.padding, d - 2))),
                     1),
                 Mul(At(o.dilation, d - 2), Sub(w[d], 1)))]

\* whether computing the DX shape indexes a vector past its end
DgradDimUB(w, dy, o) ==
    \/ Len(w) < 2
    \/ Len(dy) < 1
    \/ /\ Len(w) > 2
       /\ \/ Len(dy) < Len(w)
          \/ Len(o.stride) < Len(w) - 2
          \/ Len(o.padding) < Len(w) - 2
          \/ Len(o.dilation) < Len(w) - 2

\* DgradNode::infer_properties_node
DgradInfer(h, n) ==
    LET o == options[n]
        DX == o.ptr["DX"]
        W == o.ptr["W"]
        DY == o.ptr["DY"]
        null == DX = Null \/ W = Null \/ DY = Null
        run(w, dy) ==
            IF DX = Null THEN [h |-> h, ub |-> TRUE]
            ELSE LET h1 == IF h[DX].dim = <<>>
                           THEN set_dim(h, DX, DgradDim(w, dy, o))
                           ELSE h
                     h2 == IF h1[DX].stride = <<>>
                           THEN set_stride(h1, DX, generate_stride(h1[DX].dim))
                           ELSE h1
                 IN  [h |-> h2,
                      ub |-> null \/ (h[DX].dim = <<>> /\ DgradDimUB(w, dy, o))]
    IN  Outcomes(UNION { { run(w, dy) : dy \in ReadDim(h, DY) } :
                         w \in ReadDim(h, W) }, h)

\* RngNode does not override infer_properties_node: INode's default does nothing
RngInfer(h, n) == { [crash |-> FALSE, h |-> h, ub |-> FALSE] }

InferOutcomes(h, n) ==
    CASE options[n].kind = "BATCHNORM" -> BatchNormInfer(h, n)
      [] options[n].kind = "DBN" -> DBNInfer(h, n)
      [] options[n].kind = "DGRAD" -> DgradInfer(h, n)
      [] options[n].kind = "RNG" -> RngInfer(h, n)

InferProperties(n) ==
    /\ n \in Nodes
    /\ Running
    /\ stage[n] = "validated"
    /\ \E out \in InferOutcomes(attrs, n) :
         IF out.crash THEN Crash(n)
         ELSE /\ attrs' = out.h
              /\ ub' = [ub EXCEPT ![n] = @ \/ out.ub]
              /\ Return(n, "inferred", "OK")
              /\ UNCHANGED <<options, tensors, operations, uid_counter,
                             exception, raised, calls>>

-----------------------------------------------------------------------------
(* assign_uids                                                              *)
(* An outcome is [crash, h, c, ub]: the heap and the counter it leaves.     *)

\* the fold below drawing one uid and giving it to every pointer of ps
AssignFoldOneUid(acc, ps, i) ==
    LET u == create_new_uid(acc.c)
    IN  [h |-> [p \in DOMAIN acc.h |->
                  IF p \in Range(ps) THEN [acc.h[p] EXCEPT !.uid = u] ELSE acc.h[p]],
         c |-> u,
         ub |-> HasNull(ps)]

\* T->set_uid(ICudnn::create_new_uid()) for each pointer of ps in turn; a
\* call through an empty pointer still draws a uid, and its write is lost
RECURSIVE AssignFold(_, _, _)
AssignFold(acc, ps, i) ==
    IF i > Len(ps) THEN acc
    ELSE LET u == create_new_uid(acc.c)
         IN  AssignFold([h |-> IF ps[i] = Null THEN acc.h ELSE set_uid(acc.h, ps[i], u),
                         c |-> u,
                         ub |-> acc.ub \/ ps[i] = Null],
                        ps, i + 1)

AssignOutcomes(h, c, ps) ==
    LET r == AssignFold([h |-> h, c |-> c, ub |-> FALSE], ps, 1)
    IN  {[crash |-> FALSE, h |-> r.h, c |-> r.c, ub |-> r.ub]}
          \cup (IF r.ub THEN {[crash |-> TRUE, h |-> h, c |-> c, ub |-> TRUE]} ELSE {})

\* BatchNormNode::assign_uids_node
BatchNormAssign(h, c, n) == AssignOutcomes(h, c, Ptrs(n, BatchNormAssignOrder))

\* DBNNode::assign_uids_node
DBNAssign(h, c, n) == AssignOutcomes(h, c, Ptrs(n, DBNAssignOrder))

\* DgradNode::assign_uids_node
DgradAssign(h, c, n) == AssignOutcomes(h, c, Ptrs(n, DgradAssignOrder))

\* the pointers of Seed and Offset that are set, then Y
RngPresent(n) ==
    SelectSeq(Ptrs(n, <<"Seed", "Offset">>), LAMBDA p : p # Null)
      \o Ptrs(n, <<"Y">>)

\* RngNode::assign_uids_node
RngAssign(h, c, n) == AssignOutcomes(h, c, RngPresent(n))

AssignUidsOutcomes(h, c, n) ==
    CASE options[n].kind = "BATCHNORM" -> BatchNormAssign(h, c, n)
      [] options[n].kind = "DBN" -> DBNAssign(h, c, n)
      [] options[n].kind = "DGRAD" -> DgradAssign(h, c, n)
      [] options[n].kind = "RNG" -> RngAssign(h, c, n)

\* the effect of one assign_uids call on node n
AssignUidsCall(n) ==
    \E out \in AssignUidsOutcomes(attrs, uid_counter, n) :
        IF out.crash THEN Crash(n)
        ELSE /\ attrs' = out.h
             /\ uid_counter' = out.c
             /\ ub' = [ub EXCEPT ![n] = @ \/ out.ub]
             /\ calls' = [calls EXCEPT ![n] = @ + 1]
             /\ Return(n, "uids_assigned", "OK")
             /\ UNCHANGED <<options, tensors, operations, exception, raised>>

\* assign_uids, called after infer_properties
AssignUids(n) ==
    /\ n \in Nodes
    /\ Running
    /\ stage[n] = "inferred"
    /\ AssignUidsCall(n)

\* assign_uids called again on a node that has its uids
AssignUidsAgain(n) ==
    /\ n \in Nodes
    /\ Running
    /\ stage[n] = "uids_assigned"
    /\ calls[n] <= MaxRepeat
    /\ AssignUidsCall(n)

-----------------------------------------------------------------------------
(* createTensors                                                            *)
(* An outcome is [crash, keys, code, ub]: the keys of the node's map.       *)

\* create_cudnn_tensor on each pointer of ps in turn, until the tensor
\* factory rejects one (k tensors are accepted)
CreateTensorsOutcomes(h, keys, ps) ==
    LET run(k) ==
            [crash |-> FALSE,
             keys |-> keys \cup { h[ps[i]].uid : i \in { j \in 1..k : ps[j] # Null } },
             code |-> IF k = Len(ps) THEN "OK" ELSE "BACKEND_CONSTRUCTION_FAILURE",
             ub |-> \E i \in 1..(IF k < Len(ps) THEN k + 1 ELSE k) : ps[i] = Null]
    IN  { run(k) : k \in 0..Len(ps) }
          \cup (IF HasNull(ps)
                THEN {[crash |-> TRUE, keys |-> keys, code |-> "OK", ub |-> TRUE]}
                ELSE {})

\* BatchNormNode::createTensors
BatchNormCreateTensors(h, keys, n) ==
    CreateTensorsOutcomes(h, keys, Ptrs(n, BatchNormTensorOrder))

\* DBNNode::createTensors
DBNCreateTensors(h, keys, n) ==
    CreateTensorsOutcomes(h, keys, Ptrs(n, DBNTensorOrder))

\* DgradNode::createTensors
DgradCreateTensors(h, keys, n) ==
    CreateTensorsOutcomes(h, keys, Ptrs(n, DgradTensorOrder))

\* RngNode::createTensors
RngCreateTensors(h, keys, n) ==
    CreateTensorsOutcomes(h, keys, RngPresent(n))

CreateTensorsOf(h, keys, n) ==
    CASE options[n].kind = "BATCHNORM" -> BatchNormCreateTensors(h, keys, n)
      [] options[n].kind = "DBN" -> DBNCreateTensors(h, keys, n)
      [] options[n].kind = "DGRAD" -> DgradCreateTensors(h, keys, n)
      [] options[n].kind = "RNG" -> RngCreateTensors(h, keys, n)

CreateTensors(n) ==
    /\ n \in Nodes
    /\ Running
    /\ stage[n] = "uids_assigned"
    /\ \E out \in CreateTensorsOf(attrs, tensors[n], n) :
         IF out.crash THEN Crash(n)
         ELSE /\ tensors' = [tensors EXCEPT ![n] = out.keys]
              /\ ub' = [ub EXCEPT ![n] = @ \/ out.ub]
              /\ Return(n, "tensors_created", out.code)
              /\ UNCHANGED <<attrs, options, operations, uid_counter, exception,
                             raised, calls>>

-----------------------------------------------------------------------------
(* createOperations                                                         *)
(* An outcome is [res, exception, raised, ops, ub]: res is "ok" (the        *)
(* handler returns OK and leaves ops), "throw" (an exception leaves the     *)
(* handler) or "crash".                                                     *)

OutOfRange == [type |-> "std::out_of_range", status |-> "none", message |-> "none"]

BadOptionalAccess ==
    [type |-> "std::bad_optional_access", status |-> "none", message |-> "none"]

\* the catch block raising its exception with a fixed status code
RethrowFixedStatus(e) ==
    [type |-> "cudnnException", status |-> "INTERNAL_ERROR", message |-> e.message]

\* catch (cudnnException& e) { throw cudnnException(e.what(), e.getCudnnStatus()); }
Rethrow(e) == [type |-> "cudnnException", status |-> e.status, message |-> e.message]

Throws(e, orig, ops, u) ==
    [res |-> "throw", exception |-> e, raised |-> orig, ops |-> ops, ub |-> u]

\* the external builder raises some backend exception, which is caught and rethrown
BuilderThrows(ops, u) == { Throws(Rethrow(e), e, ops, u) : e \in BackendExceptions }

\* tensors.at(T->get_uid()) for each pointer of ps in turn: every handle is
\* found ("ok"), a uid is not in the map ("out_of_range"), or the process
\* crashes on an empty pointer; a uid read through an empty pointer is
\* arbitrary, in the map or not
RECURSIVE Lookups(_, _, _, _)
Lookups(h, keys, ps, i) ==
    IF i > Len(ps) THEN {[res |-> "ok", ub |-> FALSE]}
    ELSE IF ps[i] = Null
         THEN {[res |-> "crash", ub |-> TRUE], [res |-> "out_of_range", ub |-> TRUE]}
                \cup { [res |-> r.res, ub |-> TRUE] : r \in Lookups(h, keys, ps, i + 1) }
    ELSE IF h[ps[i]].uid \notin keys
         THEN {[res |-> "out_of_range", ub |-> FALSE]}
    ELSE Lookups(h, keys, ps, i + 1)

\* the loop below without its test of the virtual flag
RECURSIVE UidsInOperationUnfiltered(_, _, _)
UidsInOperationUnfiltered(h, ps, i) ==
    IF i > Len(ps) THEN <<>>
    ELSE IF ps[i] # Null
         THEN <<h[ps[i]].uid>> \o UidsInOperationUnfiltered(h, ps, i + 1)
    ELSE UidsInOperationUnfiltered(h, ps, i + 1)

\* for (tensor : tensors_involved_in_operation)
\*     if (tensor && tensor->get_is_virtual() == false) push_back(tensor->get_uid())
RECURSIVE UidsInOperation(_, _, _)
UidsInOperation(h, ps, i) ==
    IF i > Len(ps) THEN <<>>
    ELSE IF ps[i] # Null /\ h[ps[i]].is_virtual = FALSE
         THEN <<h[ps[i]].uid>> \o UidsInOperation(h, ps, i + 1)
    ELSE UidsInOperation(h, ps, i + 1)

\* an operation record: the operation with the roles bound to it, and the uids
OperationRecord(type, wired, literal_seed, uids) ==
    [operation |-> [type |-> type, wired |-> wired, literal_seed |-> literal_seed],
     uids |-> uids]

\* look the handles up, build the operation, collect the uids, push the record
BuildOperation(h, n, type, wired, literal_seed, involved) ==
    UNION { CASE l.res = "crash" ->
                   {[res |-> "crash", exception |-> NoException,
                     raised |-> NoException, ops |-> operations[n], ub |-> TRUE]}
              [] l.res = "out_of_range" ->
                   {Throws(OutOfRange, NoException, operations[n], l.ub)}
              [] l.res = "ok" ->
                   BuilderThrows(operations[n], l.ub)
                     \cup {[res |-> "ok", exception |-> NoException,
                            raised |-> NoException,
                            ops |-> Append(operations[n],
                                      OperationRecord(type, Flatten(wired), literal_seed,
                                        UidsInOperation(h, Ptrs(n, involved), 1))),
                            ub |-> l.ub]}
            : l \in UNION { Lookups(h, tensors[n], Ptrs(n, e), 1) :
                               e \in EvalOrders(wired) } }

\* BatchNormNode::createOperations
BatchNormCreateOperations(h, n) ==
    BuildOperation(h, n, "NORM_FORWARD", BatchNormWiredOrder, FALSE, BatchNormInvolved)

\* DBNNode::createOperations
DBNCreateOperations(h, n) ==
    BuildOperation(h, n, "NORM_BACKWARD", DBNWiredOrder, FALSE, DBNInvolved)

\* DgradNode::createOperations: the convolution descriptor is built first
DgradCreateOperations(h, n) ==
    BuilderThrows(operations[n], FALSE)
      \cup BuildOperation(h, n, "CONVOLUTION_BACKWARD_DATA", DgradWiredOrder, FALSE,
                          DgradInvolved)

\* RngNode::createOperations
RngCreateOperations(h, n) ==
    LET o == options[n]
    IN  IF o.distribution = "BERNOULLI"
        THEN IF ~o.has_probability
             THEN {Throws(BadOptionalAccess, NoException, operations[n], FALSE)}
             ELSE BuilderThrows(operations[n], FALSE)
                    \cup (IF o.ptr["Seed"] # Null
                          THEN BuildOperation(h, n, "RNG", RngWiredOrder,
                                              FALSE, RngInvolved)
                          ELSE IF ~o.has_seed
                               THEN { CASE l.res = "crash" ->
                                             [res |-> "crash",
                                              exception |-> NoException,
                                              raised |-> NoException,
                                              ops |-> operations[n], ub |-> TRUE]
                                        [] l.res = "out_of_range" ->
                                             Throws(OutOfRange, NoException,
                                                    operations[n], l.ub)
                                        [] l.res = "ok" ->
                                             Throws(BadOptionalAccess, NoException,
                                                    operations[n], l.ub) :
                                      l \in UNION { Lookups(h, tensors[n], Ptrs(n, e), 1) :
                                                      e \in EvalOrders(RngLiteralWiredOrder) } }
                               ELSE BuildOperation(h, n, "RNG", RngLiteralWiredOrder, TRUE,
                                                   RngInvolved))
        ELSE {[res |-> "ok", exception |-> NoException, raised |-> NoException,
               ops |-> operations[n], ub |-> FALSE]}

CreateOperationsOf(h, n) ==
    CASE options[n].kind = "BATCHNORM" -> BatchNormCreateOperations(h, n)
      [] options[n].kind = "DBN" -> DBNCreateOperations(h, n)
      [] options[n].kind = "DGRAD" -> DgradCreateOperations(h, n)
      [] options[n].kind = "RNG" -> RngCreateOperations(h, n)

CreateOperations(n) ==
    /\ n \in Nodes
    /\ Running
    /\ stage[n] = "tensors_created"
    /\ \E out \in CreateOperationsOf(attrs, n) :
         IF out.res = "crash" THEN Crash(n)
         ELSE /\ operations' = [operations EXCEPT ![n] = out.ops]
              /\ exception' = [exception EXCEPT ![n] = out.exception]
              /\ raised' = [raised EXCEPT ![n] = out.raised]
              /\ ub' = [ub EXCEPT ![n] = @ \/ out.ub]
              /\ IF out.res = "throw"
                 THEN /\ stage' = [stage EXCEPT ![n] = "threw"]
                      /\ UNCHANGED status
                 ELSE Return(n, "operations_built", "OK")
              /\ UNCHANGED <<attrs, options, tensors, uid_counter, calls>>

-----------------------------------------------------------------------------
(* The specification: the driver takes every node through its stages in     *)
(* order, the nodes in any interleaving.                                    *)

Next ==
    \E n \in 1..MaxNodes :
        \/ Validate(n)
        \/ InferProperties(n)
        \/ AssignUids(n)
        \/ AssignUidsAgain(n)
        \/ CreateTensors(n)
        \/ CreateOperations(n)

Spec == Init /\ [][Next]_vars

\* the lifecycle from the shapes of InitInfer
SpecInfer == InitInfer /\ [][Next]_vars

\* validate, infer_properties and assign_uids, each once per node
NextAssign ==
    \E n \in 1..MaxNodes :
        \/ Validate(n)
        \/ InferProperties(n)
        \/ AssignUids(n)

\* the nodes of a graph taken up to assign_uids, in any interleaving
SpecGraph == InitGraph /\ [][NextAssign]_vars

\* the five stages, each once per node
NextLifecycle ==
    \E n \in 1..MaxNodes :
        \/ Validate(n)
        \/ InferProperties(n)
        \/ AssignUids(n)
        \/ CreateTensors(n)
        \/ CreateOperations(n)

\* two nodes sharing a descriptor, built in any interleaving
SpecShared == InitShared /\ [][NextLifecycle]_vars

\* validate and infer_properties alone
NextInfer ==
    \E n \in 1..MaxNodes :
        \/ Validate(n)
        \/ InferProperties(n)

\* shape inference of Dgrad over the shapes of InitDgrad
SpecDgrad == InitDgrad /\ [][NextInfer]_vars

-----------------------------------------------------------------------------
(* Properties.                                                              *)

\* the roles of node n that hold a descriptor
Present(n) == { r \in Roles(options[n].kind) : options[n].ptr[r] # Null }

\* the descriptor of role r of node n
Tensor(n, r) == attrs[options[n].ptr[r]]

\* C1: every operation record's identifier list holds only identifiers of
\* present, non-virtual role tensors of its node: no identifier of a tensor
\* whose virtual flag is true, and no entry for an empty role.
C1_VirtualityFilter ==
    \A n \in Nodes : \A i \in DOMAIN operations[n] :
        LET uids == operations[n][i].uids
            real == { r \in Present(n) : ~Tensor(n, r).is_virtual }
        IN  /\ \A p \in DOMAIN attrs :
                  attrs[p].is_virtual => attrs[p].uid \notin Range(uids)
            /\ \A u \in Range(uids) : \E r \in real : Tensor(n, r).uid = u
            /\ Len(uids) <= Cardinality(real)

\* within defined behaviour a record with a non-empty identifier list was
\* pushed for a node with a virtual tensor and an empty optional role
C1_Witness ==
    \E n \in Nodes :
        /\ ~ub[n]
        /\ \E i \in DOMAIN operations[n] : operations[n][i].uids # <<>>
        /\ \E r \in Present(n) : Tensor(n, r).is_virtual
        /\ OptionalRoles(options[n].kind) \ Present(n) # {}

\* C2: an Rng node with a Bernoulli distribution and no Seed emits a record
\* that uses the literal seed and binds neither Seed nor Offset, and whose
\* identifier list holds no identifier of Offset.
C2_NoSeedNoOffset ==
    \A n \in Nodes :
        (options[n].kind = "RNG" /\ options[n].ptr["Seed"] = Null) =>
            \A i \in DOMAIN operations[n] :
                LET rec == operations[n][i]
                IN  /\ rec.operation.literal_seed
                    /\ Range(rec.operation.wired) \cap {"Seed", "Offset"} = {}
                    /\ options[n].ptr["Offset"] # Null =>
                          Tensor(n, "Offset").uid \notin Range(rec.uids)

\* C3: a later assign_uids call on a node leaves the identifiers its tensors
\* already hold unchanged.
C3_AssignedOnce ==
    [][\A n \in Nodes :
          (calls[n] >= 1 /\ calls'[n] = calls[n] + 1) =>
              \A r \in Present(n) :
                  Tensor(n, r).uid # NoUid =>
                      attrs'[options[n].ptr[r]].uid = Tensor(n, r).uid]_vars

\* the roles a node of each kind cannot do without
MandatoryRoles(kind) ==
    CASE kind = "BATCHNORM" -> BatchNormRoles
      [] kind = "DBN" -> {"X", "DY", "SCALE", "DX", "DSCALE", "DBIAS"}
      [] kind = "DGRAD" -> DgradRoles
      [] kind = "RNG" -> {"Y"}

\* C6: a node with an empty mandatory role never passes validate: validate
\* returns ATTRIBUTE_NOT_SET for it.
C6_ValidateRejectsMissingRole ==
    \A n \in Nodes :
        (stage[n] # "constructed" /\ ~(MandatoryRoles(options[n].kind) \subseteq Present(n)))
            => (stage[n] = "aborted" /\ status[n] = "ATTRIBUTE_NOT_SET")

\* C7: after assign_uids every present role tensor of the node holds an
\* identifier.
C7_EveryPresentRoleHasUid ==
    \A n \in Nodes :
        stage[n] = "uids_assigned" =>
            \A r \in Present(n) : Tensor(n, r).uid # NoUid

\* MEAN, INV_VARIANCE and EPSILON are all empty
NoStatistics(n) ==
    {"MEAN", "INV_VARIANCE", "EPSILON"} \cap Present(n) = {}

\* C8: validate of a DBN node returns ATTRIBUTE_NOT_SET exactly when MEAN,
\* INV_VARIANCE and EPSILON are all empty, returns OK otherwise, and changes
\* neither the attributes bundle nor a tensor descriptor.
C8_DBNValidate ==
    [][\A n \in Nodes :
          (options[n].kind = "DBN" /\ stage[n] = "constructed" /\ stage'[n] # "constructed")
              => /\ NoStatistics(n) =>
                      (stage'[n] = "aborted" /\ status'[n] = "ATTRIBUTE_NOT_SET")
                 /\ ~NoStatistics(n) => (stage'[n] = "validated" /\ status'[n] = "OK")
                 /\ options' = options
                 /\ attrs' = attrs]_vars

\* a DBN node passed validate with EPSILON alone, and another state shows the
\* rejection; the witness is the accepted one
C8_Witness ==
    \E n \in Nodes :
        /\ options[n].kind = "DBN"
        /\ stage[n] = "validated"
        /\ Present(n) \cap {"MEAN", "INV_VARIANCE", "EPSILON"} = {"EPSILON"}


\* C5: infer_properties leaves every non-empty shape and every non-empty
\* stride as it was; it writes only a shape or stride that was empty.
C5_InferKeepsSupplied ==
    [][\A n \in Nodes :
          (stage[n] = "validated" /\ stage'[n] = "inferred") =>
              \A p \in DOMAIN attrs :
                  /\ attrs[p].dim # <<>> => attrs'[p].dim = attrs[p].dim
                  /\ attrs[p].stride # <<>> => attrs'[p].stride = attrs[p].stride]_vars

\* infer_properties returned on a node of which one inferred tensor keeps
\* the caller's shape or stride while another received an inferred shape
C5_Witness ==
    \E n \in Nodes :
        /\ stage[n] = "inferred" /\ ~ub[n]
        /\ \E r \in InferredRoles(options[n].kind) :
              Tensor(n, r).dim = UserDim \/ Tensor(n, r).stride = UserStride
        /\ \E r \in InferredRoles(options[n].kind) :
              Tensor(n, r).dim \notin {<<>>, UserDim}

\* the primary input roles of each kind
PrimaryRoles(kind) ==
    CASE kind \in {"BATCHNORM", "DBN"} -> {"X"}
      [] kind = "DGRAD" -> {"W", "DY"}
      [] OTHER -> {}

\* a primary input of node n is present and its shape is empty
PrimaryShapeUnknown(n) ==
    \E r \in PrimaryRoles(options[n].kind) \cap Present(n) : Tensor(n, r).dim = <<>>

\* C9: with a primary input of unknown shape infer_properties does not
\* return success: the node never reaches the stages after it.  (Stated of
\* the runs that stay within defined behaviour.)
C9_UnknownInputIsAnError ==
    \A n \in Nodes :
        (PrimaryShapeUnknown(n) /\ ~ub[n]) =>
            stage[n] \in {"constructed", "validated", "aborted", "crashed"}

\* C10: with DX's shape unset Dgrad infer_properties gives DX the rank of W,
\* DX[0] = DY[0], DX[1] = W[1] and on every spatial axis d
\* DX[d] = (DY[d]-1)*stride - 2*padding + 1 + dilation*(W[d]-1); with a 3x3
\* filter and unit stride and dilation without padding that is
\* [N, C, P+2, Q+2].  (Sequences are indexed from 1.)
C10_DgradShape ==
    \A n \in Nodes :
        (options[n].kind = "DGRAD" /\ stage[n] = "inferred") =>
            LET o == options[n]
                w == Tensor(n, "W").dim
                dy == Tensor(n, "DY").dim
                dx == Tensor(n, "DX").dim
            IN  /\ Len(dx) = Len(w)
                /\ dx[1] = dy[1]
                /\ dx[2] = w[2]
                /\ \A d \in 3..Len(w) :
                      dx[d] = (dy[d] - 1) * o.stride[d - 2] - 2 * o.padding[d - 2]
                                + 1 + o.dilation[d - 2] * (w[d] - 1)
                /\ ( /\ Len(w) = 4 /\ w[3] = 3 /\ w[4] = 3
                     /\ o.stride = <<1, 1>> /\ o.padding = <<0, 0>>
                     /\ o.dilation = <<1, 1>> )
                      => dx = <<dy[1], w[2], dy[3] + 2, dy[4] + 2>>

\* the shape of DX was inferred for a 3x3 filter with unit parameters, and
\* the numbers of input and output channels differ
C10_Witness ==
    \E n \in Nodes :
        /\ options[n].kind = "DGRAD" /\ stage[n] = "inferred" /\ ~ub[n]
        /\ Len(Tensor(n, "W").dim) = 4
        /\ Tensor(n, "W").dim[1] # Tensor(n, "W").dim[2]
        /\ Tensor(n, "W").dim[3] = 3 /\ Tensor(n, "W").dim[4] = 3
        /\ options[n].stride = <<1, 1>> /\ options[n].padding = <<0, 0>>
        /\ options[n].dilation = <<1, 1>>
        /\ Tensor(n, "DX").dim = <<Tensor(n, "DY").dim[1], Tensor(n, "W").dim[2],
                                   Tensor(n, "DY").dim[3] + 2, Tensor(n, "DY").dim[4] + 2>>


\* C4: once assign_uids has run on every node of the graph, no two distinct
\* tensor descriptors hold the same identifier.
C4_UniqueUids ==
    (\A n \in Nodes : stage[n] = "uids_assigned") =>
        \A p, q \in DOMAIN attrs :
            (p # q /\ attrs[p].uid # NoUid) => attrs[p].uid # attrs[q].uid

\* assign_uids has run on every node of a graph of several nodes, two of
\* which share a descriptor
C4_Witness ==
    /\ Cardinality(Nodes) > 1
    /\ \A n \in Nodes : stage[n] = "uids_assigned" /\ ~ub[n]
    /\ \E n \in Nodes : \E r \in Present(n) : options[n].ptr[r][1] # n
    /\ \A p \in DOMAIN attrs : p[2] # "EPSILON" => attrs[p].uid # NoUid


\* the roles infer_properties treats as per-channel tensors
PerChannelRoles(kind) ==
    CASE kind = "BATCHNORM" ->
            {"MEAN", "INV_VARIANCE", "NEXT_RUNNING_MEAN", "NEXT_RUNNING_VAR",
             "PREV_RUNNING_MEAN", "PREV_RUNNING_VAR", "SCALE", "BIAS"}
      [] kind = "DBN" -> {"MEAN", "INV_VARIANCE", "SCALE", "DSCALE", "DBIAS"}
      [] OTHER -> {}

\* C11: for X with a channel axis, infer_properties gives every per-channel
\* tensor of BatchNorm and DBN whose shape was empty a shape of X's rank, all
\* ones except the channel axis, which carries X's channel extent.
\* (Sequences are indexed from 1: the channel axis is position 2.)
C11_PerChannelShape ==
    [][\A n \in Nodes :
          (/\ options[n].kind \in {"BATCHNORM", "DBN"}
           /\ stage[n] = "validated" /\ stage'[n] = "inferred"
           /\ options[n].ptr["X"] # Null
           /\ Len(Tensor(n, "X").dim) >= 2) =>
              \A r \in PerChannelRoles(options[n].kind) \cap Present(n) :
                  Tensor(n, r).dim = <<>> =>
                      LET x == Tensor(n, "X").dim
                          d == attrs'[options[n].ptr[r]].dim
                      IN  /\ Len(d) = Len(x)
                          /\ d[2] = x[2]
                          /\ \A i \in DOMAIN d : i # 2 => d[i] = 1]_vars

\* a DBN node inferred the per-channel shapes from a four-axis X whose batch
\* and channel extents differ
C11_Witness ==
    \E n \in Nodes :
        /\ options[n].kind = "DBN" /\ stage[n] = "inferred" /\ ~ub[n]
        /\ Tensor(n, "X").dim = <<2, 3, 2, 2>>
        /\ Tensor(n, "DSCALE").dim = <<1, 3, 1, 1>>
        /\ Tensor(n, "MEAN").dim = <<1, 3, 1, 1>>


\* C12: when the external builder raises a backend exception in
\* createOperations, the handler does not return: a backend exception with
\* the same status code and the same message leaves it, and the node's list
\* of operation records is as it was.
C12_BuilderExceptionRethrown ==
    [][\A n \in Nodes :
          (stage[n] = "tensors_created" /\ raised'[n] # NoException) =>
              /\ stage'[n] = "threw"
              /\ exception'[n].type = "cudnnException"
              /\ exception'[n].status = raised'[n].status
              /\ exception'[n].message = raised'[n].message
              /\ operations'[n] = operations[n]]_vars

\* the builder raised NOT_SUPPORTED on an Rng node whose handles were all found
C12_Witness ==
    \E n \in Nodes :
        /\ options[n].kind = "RNG" /\ ~ub[n]
        /\ stage[n] = "threw"
        /\ raised[n] \in BackendExceptions /\ raised[n].status = "NOT_SUPPORTED"
        /\ exception[n].status = "NOT_SUPPORTED"
        /\ operations[n] = <<>>


\* C13: a node that passed validate runs its later stages without reading
\* through an empty role.  Stated of the nodes whose mandatory roles are all
\* set, where the shapes of Init leave an empty optional role as the only way
\* out of defined behaviour: such a node never has ub set.
C13_NoAbsentRoleRead ==
    \A n \in Nodes :
        (/\ stage[n] \notin {"constructed", "aborted"}
         /\ MandatoryRoles(options[n].kind) \subseteq Present(n)) => ~ub[n]


\* the roles each kind's createOperations lists for the identifier list
InvolvedRoles(kind) ==
    CASE kind = "BATCHNORM" -> Range(BatchNormInvolved)
      [] kind = "DBN" -> Range(DBNInvolved)
      [] kind = "DGRAD" -> Range(DgradInvolved)
      [] kind = "RNG" -> Range(RngInvolved)

\* the identifier of descriptor p is in every operation record of node n
InEveryRecord(n, p) ==
    \A i \in DOMAIN operations[n] : attrs[p].uid \in Range(operations[n][i].uids)

\* C14: when an input role of one node holds the descriptor of an output
\* role of another and both nodes are built, in whatever interleaving, the
\* records of both nodes carry the identifier the descriptor holds at the
\* end of the build (for a real tensor in a role the record lists).
C14_SharedTensorSameUid ==
    \A b \in Nodes : \A r \in Present(b) :
        LET p == options[b].ptr[r]
            a == p[1]
        IN  (/\ a # b
             /\ stage[a] = "operations_built" /\ stage[b] = "operations_built"
             /\ ~attrs[p].is_virtual) =>
                /\ r \in InvolvedRoles(options[b].kind) => InEveryRecord(b, p)
                /\ p[2] \in InvolvedRoles(options[a].kind) => InEveryRecord(a, p)


\* C15: every shape Dgrad infer_properties writes is a sequence of positive
\* integers: with W and DY of positive extents and equal rank, stride >= 1,
\* dilation >= 1 and padding >= 0, each extent of the inferred DX is >= 1.
C15_DgradDimsPositive ==
    \A n \in Nodes :
        (/\ options[n].kind = "DGRAD" /\ stage[n] = "inferred" /\ ~ub[n]
         /\ Len(Tensor(n, "W").dim) = Len(Tensor(n, "DY").dim)
         /\ \A i \in DOMAIN Tensor(n, "W").dim :
               Tensor(n, "W").dim[i] >= 1 /\ Tensor(n, "DY").dim[i] >= 1
         /\ \A a \in DOMAIN options[n].stride :
               /\ options[n].stride[a] >= 1
               /\ options[n].dilation[a] >= 1
               /\ options[n].padding[a] >= 0) =>
            \A d \in DOMAIN Tensor(n, "DX").dim : Tensor(n, "DX").dim[d] >= 1

=============================================================================
